---- MODULE Spec2Model ----
(***************************************************************************)
(* Model of the thumbnail controllers of ai-thumbnail-generator:           *)
(* generateThumbnail (pending record, prompt, model fallback loop, CDN     *)
(* upload, terminal update, error mapping) and deleteThumbnail, over a     *)
(* document store of Thumbnail records.                                    *)
(*                                                                         *)
(* Strings are sequences of tokens, so that composing a prompt is          *)
(* concatenation and never the identity.  Every await of the handler is    *)
(* the boundary of one action; deleteThumbnail has a single await and is   *)
(* one action that may run between any two steps of a generation.          *)
(***************************************************************************)
EXTENDS Integers, Sequences, FiniteSets, TLC

----------------------------------------------------------------------------
(* Bounds of the model *)

\* number of generation requests that are started
MaxRequests == 1
\* number of session users
NumUsers == 2
\* number of stored records when only deletes are issued
MaxRecords == 2

Users == 1..NumUsers
Ids == 1..MaxRequests

----------------------------------------------------------------------------
(* Prompt configuration *)

Undefined == "undefined"

\* lookup in the style table; a missing key reads as JavaScript's undefined
stylePrompts(style) ==
  IF style = "Minimalist" THEN "minimalist thumbnail, clean layout"
  ELSE IF style = "Illustrated" THEN "illustrated thumbnail, bold outlines"
  ELSE Undefined

colorSchemeDescriptions(color) ==
  IF color = "neon" THEN "neon glow effects"
  ELSE IF color = "ocean" THEN "cool blue and teal tones"
  ELSE Undefined

\* request bodies that are submitted:
\* a plain request, one with a color scheme and free text, and one whose
\* style is no key of the style table
Bodies ==
  { [title |-> "My Title", prompt |-> <<>>, style |-> "Minimalist",
     aspect_ratio |-> "16:9", color_scheme |-> ""],
    [title |-> "My Title", prompt |-> <<"more details">>, style |-> "Illustrated",
     aspect_ratio |-> "16:9", color_scheme |-> "neon"],
    [title |-> "My Title", prompt |-> <<"more details">>, style |-> "Retro",
     aspect_ratio |-> "16:9", color_scheme |-> ""] }

\* the prompt built from the request body
BuildPrompt(body) ==
  <<"Create a", stylePrompts(body.style), "for:", body.title>>
  \o (IF body.color_scheme # ""
        THEN <<"Use a", colorSchemeDescriptions(body.color_scheme), "color scheme.">>
        ELSE <<>>)
  \o (IF body.prompt # <<>>
        THEN <<"Additional details:">> \o body.prompt
        ELSE <<>>)
  \o <<"The thumbnail should be", body.aspect_ratio,
       "visually stunning, and designed to maximize click-through rate.">>

modelsToTry ==
  <<"stabilityai/stable-diffusion-3.5",
    "runwayml/stable-diffusion-v1-5",
    "stabilityai/stable-diffusion-xl-1024-v1-0">>

----------------------------------------------------------------------------
(* Responses of the inference service *)

Statuses == {200, 404, 429, 500}
ContentTypes == {"application/json", "image/png"}

\* response payloads, as sequences of tokens
Payloads ==
  { <<>>,
    <<"{", "error", "}">>,
    <<"{", "}">>,
    <<"PNG", "pixels">>,
    <<"Not Found">> }

NoResp == [status |-> 0, contentType |-> "", data |-> <<>>, threw |-> FALSE]
Thrown == [status |-> 0, contentType |-> "", data |-> <<>>, threw |-> TRUE]

\* what the await of callHuggingFaceRouter can produce: any status is
\* returned (validateStatus accepts all); timeouts and network errors throw
callHuggingFaceRouter ==
  [status : Statuses, contentType : ContentTypes, data : Payloads, threw : {FALSE}]
  \cup {Thrown}

NullJson == [isNull |-> TRUE, fields |-> {}]

\* JSON.parse of a token text: an object or array that is closed
JsonWellFormed(text) ==
  /\ Len(text) >= 2
  /\ \/ text[1] = "{" /\ text[Len(text)] = "}"
     \/ text[1] = "[" /\ text[Len(text)] = "]"

JsonFields(text) ==
  IF text[1] = "{" THEN {text[i] : i \in 2..(Len(text) - 1)} ELSE {}

tryParseBufferAsJson(buf) ==
  IF buf = <<>> THEN NullJson
  ELSE IF buf[1] \in {"{", "["}
    THEN IF JsonWellFormed(buf)
           THEN [isNull |-> FALSE, fields |-> JsonFields(buf)]
           ELSE NullJson
    ELSE NullJson

\* a test of the parsed body that never sees an error field
HasErrorField_Never(parsed) == FALSE

\* parsedJson && (parsedJson.error || parsedJson.detail || parsedJson.message)
HasErrorField(parsed) ==
  /\ ~parsed.isNull
  /\ parsed.fields \cap {"error", "detail", "message"} # {}

\* a Buffer object is truthy in JavaScript whatever its length
BufferTruthy(buf) == Len(buf) >= 0

\* the test of the status without its exception for 429
IsClientError_No429(status) == status >= 400 /\ status < 500

\* hfResp.status >= 400 && hfResp.status < 500 && hfResp.status !== 429
IsClientError(status) == status >= 400 /\ status < 500 /\ status # 429

NullError == [model |-> "", status |-> 0, kind |-> "null"]
NullBuffer == [isNull |-> TRUE, data |-> <<>>]

\* what the loop does after it has recorded a JSON error of this status
AfterJsonError(status) == IF IsClientError(status) THEN "break" ELSE "continue"

\* an accepted image that does not leave the loop
AfterImage_NoBreak == "continue"

\* what the loop does once a response was accepted as an image
AfterImage == "break"

\* what the loop does after it has recorded an opaque error: the statement
\* is the last of the loop body, the loop goes on
AfterOpaqueError(status) == "continue"

\* an opaque error that the loop does not record
OpaqueError_NotRecorded(modelId, status) == NullError

\* lastError = { model: modelId, status: hfResp.status, headers: hfResp.headers }
OpaqueError(modelId, status) ==
  [model |-> modelId, status |-> status, kind |-> "headers"]

\* one iteration of the fallback loop on the outcome of the call:
\* the error it records (NullError: none), the buffer it accepts
\* (NullBuffer: none) and how the iteration leaves the loop body
LoopBody(modelId, resp) ==
  LET parsedJson == tryParseBufferAsJson(resp.data) IN
  IF resp.threw
    THEN [lastError |-> [model |-> modelId, status |-> 0, kind |-> "error"],
          finalBuffer |-> NullBuffer, exit |-> "continue"]
  ELSE IF HasErrorField(parsedJson)
    THEN [lastError |-> [model |-> modelId, status |-> resp.status,
                         kind |-> "body"],
          finalBuffer |-> NullBuffer, exit |-> AfterJsonError(resp.status)]
  ELSE IF resp.contentType = "application/json"
    THEN [lastError |-> [model |-> modelId, status |-> resp.status,
                         kind |-> "body"],
          finalBuffer |-> NullBuffer, exit |-> AfterJsonError(resp.status)]
  ELSE IF resp.status >= 200 /\ resp.status < 300 /\ BufferTruthy(resp.data)
    THEN [lastError |-> NullError,
          finalBuffer |-> [isNull |-> FALSE, data |-> resp.data],
          exit |-> AfterImage]
  ELSE [lastError |-> OpaqueError(modelId, resp.status),
        finalBuffer |-> NullBuffer, exit |-> AfterOpaqueError(resp.status)]

----------------------------------------------------------------------------
(* The document store *)

NullDoc ==
  [id |-> 0, userId |-> 0, prompt_used |-> <<>>, image_url |-> "",
   isGenerating |-> FALSE]

\* Thumbnail.create: the pending record of a request
NewThumbnail(id, userId, body) ==
  [id |-> id, userId |-> userId, prompt_used |-> body.prompt,
   image_url |-> "", isGenerating |-> TRUE]

\* thumbnail.save() updates the stored document of that id; it throws when
\* the store fails or holds no document of that id
CanSave(st, doc) == doc.id \in DOMAIN st /\ st[doc.id] # NullDoc

\* a save that resolves without writing the document
Save_Dropped(st, doc) == st

Save(st, doc) == [st EXCEPT ![doc.id] = doc]

\* a finalisation that forgets the flag
MarkFinished_Forgotten(doc) == doc

\* thumbnail.isGenerating = false
MarkFinished(doc) == [doc EXCEPT !.isGenerating = FALSE]

\* an assignment of the url that is lost
SetImageUrl_Lost(doc, url) == doc

\* thumbnail.image_url = uploadResult.url
SetImageUrl(doc, url) == [doc EXCEPT !.image_url = url]

\* a delete that falls back on the owner when no document has the id: it
\* removes the first document of that user
findByIdAndDelete_OwnerFallback(st, arg) ==
  LET owned == {i \in DOMAIN st : st[i] # NullDoc /\ st[i].userId = arg.userId}
      first == CHOOSE i \in owned : \A j \in owned : i <= j
  IN [i \in DOMAIN st |->
        IF i = arg._id THEN NullDoc
        ELSE IF st[arg._id] = NullDoc /\ owned # {} /\ i = first THEN NullDoc
        ELSE st[i]]

\* Thumbnail.findByIdAndDelete(arg): the filter is { _id: arg }; the object
\* { _id: id, userId } passed as arg is cast to the id it carries, and the
\* document of that id is removed whoever owns it
findByIdAndDelete(st, arg) ==
  [i \in DOMAIN st |-> IF i = arg._id THEN NullDoc ELSE st[i]]

Urls == {"https://ik.imagekit.io/a.png", "https://ik.imagekit.io/b.png"}

NoRes == [status |-> 0, message |-> "", thumbnail |-> NullDoc,
          lastError |-> NullError]
NoDel == [id |-> 0, status |-> 0, message |-> "", found |-> FALSE, own |-> FALSE]

\* the answer to a request that got no image, sent with status 500
NoImageResponse_500(err) ==
  [status |-> 500,
   message |-> "Failed to generate image from Hugging Face models",
   thumbnail |-> NullDoc, lastError |-> err]

\* res.status(502).json({ message, lastError, hfResponseHeaders })
NoImageResponse(err) ==
  [status |-> 502,
   message |-> "Failed to generate image from Hugging Face models",
   thumbnail |-> NullDoc, lastError |-> err]

----------------------------------------------------------------------------
(* State *)

VARIABLES
  store,              \* the Thumbnail collection: id -> document or NullDoc
  requests,           \* generation requests started so far
  pc,                 \* where the generateThumbnail handler stands
  thumbnail,          \* the handler's document (NullDoc: null)
  prompt,             \* the composed prompt
  modelIdx,           \* index of the candidate of the current iteration
  invoked,            \* the models called so far by this request, in order
  hfResp,             \* the response of the last iteration
  lastError,
  finalBuffer,
  uploadResult,       \* url returned by imagekit.upload, "" if none
  res,                \* the response sent for the generation request
  sent,               \* responses sent for the generation request
  updates,            \* saves of the request's record that succeeded
  del                 \* the last deleteThumbnail request: the id, the
                      \* response, whether a document of that id was
                      \* found, and whether the requesting user owns it

vars ==
  <<store, requests, pc, thumbnail, prompt, modelIdx, invoked, hfResp,
    lastError, finalBuffer, uploadResult, res, sent, updates, del>>

genLocals ==
  <<thumbnail, prompt, modelIdx, invoked, hfResp, lastError, finalBuffer,
    uploadResult>>

\* the handler before any request
InitHandler ==
  /\ requests = 0
  /\ pc = "idle"
  /\ thumbnail = NullDoc
  /\ prompt = <<>>
  /\ modelIdx = 0
  /\ invoked = <<>>
  /\ hfResp = NoResp
  /\ lastError = NullError
  /\ finalBuffer = NullBuffer
  /\ uploadResult = ""
  /\ res = NoRes
  /\ sent = 0
  /\ updates = 0
  /\ del = NoDel

\* an empty collection
Init ==
  /\ store = [i \in Ids |-> NullDoc]
  /\ InitHandler

----------------------------------------------------------------------------
(* generateThumbnail.  hfResp and lastError are read for the last time by   *)
(* the statement that follows the loop; the actions after it drop them     *)
(* from the state.                                                         *)

\* a handler that goes on to the loop whether or not the create succeeded
AfterCreate_Ignored(ok) == "loop"

\* line 103: the await of Thumbnail.create either resolves, and the handler
\* goes on to the prompt and the loop, or throws into the outer catch
AfterCreate(ok) == IF ok THEN "loop" ELSE "catch"

\* lines 91-134: a request arrives, the pending record is created and the
\* prompt is built; a failing create goes to the outer catch with no document
CreateThumbnail ==
  /\ pc \in {"idle", "done", "rejected"}
  /\ requests < MaxRequests
  /\ requests' = requests + 1
  /\ \E userId \in Users, body \in Bodies, ok \in BOOLEAN :
       /\ prompt' = IF ok THEN BuildPrompt(body) ELSE <<>>
       /\ IF ok
            THEN /\ thumbnail' = NewThumbnail(requests + 1, userId, body)
                 /\ store' = [store EXCEPT ![requests + 1] = thumbnail']
            ELSE /\ thumbnail' = NullDoc
                 /\ store' = store
       /\ pc' = AfterCreate(ok)
       /\ modelIdx' = IF pc' = "loop" THEN 1 ELSE 0
  /\ invoked' = <<>>
  /\ hfResp' = NoResp
  /\ lastError' = NullError
  /\ finalBuffer' = NullBuffer
  /\ uploadResult' = ""
  /\ res' = NoRes
  /\ sent' = 0
  /\ updates' = 0
  /\ UNCHANGED del

\* lines 136-189: one iteration of the fallback loop: the candidate is
\* called, its response is classified, and the loop accepts the buffer,
\* breaks, or goes on to the next candidate
TryModel ==
  /\ pc = "loop"
  /\ \E r \in callHuggingFaceRouter :
       LET out == LoopBody(modelsToTry[modelIdx], r)
           over == out.exit = "break" \/ modelIdx = Len(modelsToTry)
       IN /\ hfResp' = r
          /\ lastError' = IF out.lastError = NullError THEN lastError
                          ELSE out.lastError
          /\ finalBuffer' = out.finalBuffer
          /\ modelIdx' = IF over THEN modelIdx ELSE modelIdx + 1
          /\ pc' = IF ~over THEN "loop"
                   ELSE IF out.finalBuffer.isNull THEN "noImage" ELSE "upload"
  /\ invoked' = Append(invoked, modelsToTry[modelIdx])
  /\ UNCHANGED <<store, requests, thumbnail, prompt, uploadResult, res, sent,
                 updates, del>>

\* lines 192-201: no buffer was accepted; the record is saved as finished
\* and the answer is 502; a save that throws goes to the outer catch
FailGeneration ==
  /\ pc = "noImage"
  /\ thumbnail' = MarkFinished(thumbnail)
  /\ \E ok \in BOOLEAN :
       IF ok /\ CanSave(store, thumbnail')
         THEN /\ store' = Save(store, thumbnail')
              /\ res' = NoImageResponse(lastError)
              /\ sent' = sent + 1
              /\ updates' = updates + 1
              /\ pc' = "done"
         ELSE /\ pc' = "catch"
              /\ UNCHANGED <<store, res, sent, updates>>
  /\ hfResp' = NoResp
  /\ lastError' = NullError
  /\ UNCHANGED <<requests, prompt, modelIdx, invoked, finalBuffer,
                 uploadResult, del>>

\* lines 204-211: the accepted buffer is uploaded; a throw goes to the
\* catch of the upload block
UploadImage ==
  /\ pc = "upload"
  /\ \/ \E url \in Urls : uploadResult' = url /\ pc' = "saveImage"
     \/ uploadResult' = "" /\ pc' = "uploadCatch"
  /\ hfResp' = NoResp
  /\ lastError' = NullError
  /\ UNCHANGED <<store, requests, thumbnail, prompt, modelIdx, invoked,
                 finalBuffer, res, sent, updates, del>>

\* lines 213-217: the document takes the url and is saved; the answer is the
\* document; a save that throws goes to the catch of the upload block
SaveImage ==
  /\ pc = "saveImage"
  /\ thumbnail' = MarkFinished(SetImageUrl(thumbnail, uploadResult))
  /\ \E ok \in BOOLEAN :
       IF ok /\ CanSave(store, thumbnail')
         THEN /\ store' = Save(store, thumbnail')
              /\ res' = [status |-> 200, message |-> "Thumbnail Generated",
                         thumbnail |-> thumbnail', lastError |-> NullError]
              /\ sent' = sent + 1
              /\ updates' = updates + 1
              /\ pc' = "done"
         ELSE /\ pc' = "uploadCatch"
              /\ UNCHANGED <<store, res, sent, updates>>
  /\ UNCHANGED <<requests, prompt, modelIdx, invoked, hfResp, lastError,
                 finalBuffer, uploadResult, del>>

\* lines 218-223: the catch of the upload block saves the document as
\* finished and answers 500; a save that throws goes to the outer catch
UploadFailed ==
  /\ pc = "uploadCatch"
  /\ thumbnail' = MarkFinished(thumbnail)
  /\ \E ok \in BOOLEAN :
       IF ok /\ CanSave(store, thumbnail')
         THEN /\ store' = Save(store, thumbnail')
              /\ res' = [status |-> 500, message |-> "Image upload failed",
                         thumbnail |-> NullDoc, lastError |-> NullError]
              /\ sent' = sent + 1
              /\ updates' = updates + 1
              /\ pc' = "done"
         ELSE /\ pc' = "catch"
              /\ UNCHANGED <<store, res, sent, updates>>
  /\ UNCHANGED <<requests, prompt, modelIdx, invoked, hfResp, lastError,
                 finalBuffer, uploadResult, del>>

\* lines 224-237: the outer catch; when there is a document it is saved as
\* finished, and a throw of that save leaves the handler with no answer;
\* the caught errors carry no response, the answer is 500
UnexpectedError ==
  /\ pc = "catch"
  /\ IF thumbnail # NullDoc
       THEN /\ thumbnail' = MarkFinished(thumbnail)
            /\ \E ok \in BOOLEAN :
                 IF ok /\ CanSave(store, thumbnail')
                   THEN /\ store' = Save(store, thumbnail')
                        /\ res' = [status |-> 500, message |-> "error.message",
                                   thumbnail |-> NullDoc, lastError |-> NullError]
                        /\ sent' = sent + 1
                        /\ updates' = updates + 1
                        /\ pc' = "done"
                   ELSE /\ pc' = "rejected"
                        /\ UNCHANGED <<store, res, sent, updates>>
       ELSE /\ res' = [status |-> 500, message |-> "error.message",
                       thumbnail |-> NullDoc, lastError |-> NullError]
            /\ sent' = sent + 1
            /\ pc' = "done"
            /\ UNCHANGED <<store, thumbnail, updates>>
  /\ UNCHANGED <<requests, prompt, modelIdx, invoked, hfResp, lastError,
                 finalBuffer, uploadResult, del>>

----------------------------------------------------------------------------
(* deleteThumbnail *)

\* lines 243-255: the delete by id, then the confirmation; a throw of the
\* store is answered 500
deleteThumbnail ==
  /\ \E id \in DOMAIN store, userId \in Users, ok \in BOOLEAN :
       IF ok
         THEN /\ store' = findByIdAndDelete(store, [_id |-> id, userId |-> userId])
              /\ del' = [id |-> id, status |-> 200,
                         message |-> "Thumbnail Deleted Successfully",
                         found |-> store[id] # NullDoc,
                         own |-> store[id].userId = userId]
         ELSE /\ store' = store
              /\ del' = [id |-> id, status |-> 500, message |-> "error.message",
                         found |-> FALSE, own |-> FALSE]
  /\ UNCHANGED <<requests, pc, res, sent, updates>>
  /\ UNCHANGED genLocals

Next ==
  \/ CreateThumbnail
  \/ TryModel
  \/ FailGeneration
  \/ UploadImage
  \/ SaveImage
  \/ UploadFailed
  \/ UnexpectedError
  \/ deleteThumbnail

Spec == Init /\ [][Next]_vars

----------------------------------------------------------------------------
(* Deletes alone, on a collection that earlier requests have filled: each  *)
(* id holds no document, a pending one, one finished without image, or one *)
(* finished with an image.                                                 *)

StoredDocs(id) ==
  {NullDoc} \cup
  { [id |-> id, userId |-> u, prompt_used |-> <<>>, image_url |-> "",
     isGenerating |-> g] : u \in Users, g \in BOOLEAN }
  \cup
  { [id |-> id, userId |-> u, prompt_used |-> <<>>, image_url |-> url,
     isGenerating |-> FALSE] : u \in Users, url \in Urls }

DeleteInit ==
  /\ store \in { st \in [1..MaxRecords -> UNION {StoredDocs(i) : i \in 1..MaxRecords}] :
                   \A i \in 1..MaxRecords : st[i] \in StoredDocs(i) }
  /\ InitHandler

DeleteNext == deleteThumbnail

DeleteSpec == DeleteInit /\ [][DeleteNext]_vars

----------------------------------------------------------------------------
(* The single-model variant of the controller (src/unnamed/part_000): one  *)
(* call of the inference SDK, no fallback loop, and one catch for the      *)
(* whole handler.  Its deleteThumbnail is the same as above.               *)

SingleModel == "black-forest-labs/FLUX.1-schnell"

\* lines 62-73 of the variant: the same tables, another framing suffix
SingleBuildPrompt(body) ==
  <<"Create a", stylePrompts(body.style), "for:", body.title>>
  \o (IF body.color_scheme # ""
        THEN <<"Use a", colorSchemeDescriptions(body.color_scheme), "color scheme.">>
        ELSE <<>>)
  \o (IF body.prompt # <<>>
        THEN <<"Additional details:">> \o body.prompt
        ELSE <<>>)
  \o <<"Compose the image for a", body.aspect_ratio,
       "aspect ratio. Make it visually stunning and designed to maximize click-through rate.">>

\* lines 105-107 of the variant: the url, the composed prompt and the flag
SingleFinish(doc, url, composed) ==
  [doc EXCEPT !.image_url = url, !.prompt_used = composed,
              !.isGenerating = FALSE]

\* lines 38-73: the pending record is created and the prompt is built; a
\* failing create throws into the catch
SingleCreate ==
  /\ pc \in {"idle", "done"}
  /\ requests < MaxRequests
  /\ requests' = requests + 1
  /\ \E userId \in Users, body \in Bodies, ok \in BOOLEAN :
       IF ok
         THEN /\ thumbnail' = NewThumbnail(requests + 1, userId, body)
              /\ store' = [store EXCEPT ![requests + 1] = thumbnail']
              /\ prompt' = SingleBuildPrompt(body)
              /\ pc' = "textToImage"
         ELSE /\ thumbnail' = NullDoc
              /\ store' = store
              /\ prompt' = <<>>
              /\ pc' = "singleCatch"
  /\ invoked' = <<>>
  /\ finalBuffer' = NullBuffer
  /\ uploadResult' = ""
  /\ res' = NoRes
  /\ sent' = 0
  /\ updates' = 0
  /\ UNCHANGED <<modelIdx, hfResp, lastError, del>>

\* lines 76-94: the one inference call; it returns the image, which is
\* turned into a buffer, or it throws into the catch
SingleTextToImage ==
  /\ pc = "textToImage"
  /\ invoked' = <<SingleModel>>
  /\ \/ \E buf \in Payloads :
          /\ finalBuffer' = [isNull |-> FALSE, data |-> buf]
          /\ pc' = "singleUpload"
     \/ /\ finalBuffer' = NullBuffer
        /\ pc' = "singleCatch"
  /\ UNCHANGED <<store, requests, thumbnail, prompt, modelIdx, hfResp,
                 lastError, uploadResult, res, sent, updates, del>>

\* lines 97-101: the upload; a throw goes to the catch
SingleUpload ==
  /\ pc = "singleUpload"
  /\ \/ \E url \in Urls : uploadResult' = url /\ pc' = "singleSave"
     \/ uploadResult' = "" /\ pc' = "singleCatch"
  /\ UNCHANGED <<store, requests, thumbnail, prompt, modelIdx, invoked,
                 hfResp, lastError, finalBuffer, res, sent, updates, del>>

\* lines 105-110: the document is finished and saved, and is the answer; a
\* save that throws goes to the catch
SingleSave ==
  /\ pc = "singleSave"
  /\ thumbnail' = SingleFinish(thumbnail, uploadResult, prompt)
  /\ \E ok \in BOOLEAN :
       IF ok /\ CanSave(store, thumbnail')
         THEN /\ store' = Save(store, thumbnail')
              /\ res' = [status |-> 200, message |-> "Thumbnail Generated",
                         thumbnail |-> thumbnail', lastError |-> NullError]
              /\ sent' = sent + 1
              /\ updates' = updates + 1
              /\ pc' = "done"
         ELSE /\ pc' = "singleCatch"
              /\ UNCHANGED <<store, res, sent, updates>>
  /\ UNCHANGED <<requests, prompt, modelIdx, invoked, hfResp, lastError,
                 finalBuffer, uploadResult, del>>

\* lines 111-114: the catch answers 500 with the message of the error, and
\* does nothing else
SingleCatch ==
  /\ pc = "singleCatch"
  /\ res' = [status |-> 500, message |-> "error.message",
             thumbnail |-> NullDoc, lastError |-> NullError]
  /\ sent' = sent + 1
  /\ pc' = "done"
  /\ UNCHANGED <<store, requests, thumbnail, prompt, modelIdx, invoked,
                 hfResp, lastError, finalBuffer, uploadResult, updates, del>>

SingleNext ==
  \/ SingleCreate
  \/ SingleTextToImage
  \/ SingleUpload
  \/ SingleSave
  \/ SingleCatch
  \/ deleteThumbnail

SingleSpec == Init /\ [][SingleNext]_vars

----------------------------------------------------------------------------
(* Properties *)

\* the stored record of the request in hand, NullDoc when there is none
Persisted == IF thumbnail = NullDoc THEN NullDoc ELSE store[thumbnail.id]

\* the handler has ended: with an answer, or by a rejection without one
Ended == pc \in {"done", "rejected"}

\* C1 (as stated): once the handler of a request that created its pending
\* record has ended, whatever failures occurred, the persisted record has
\* isGenerating = FALSE.
C1_NeverLeftGenerating ==
  Ended /\ Persisted # NullDoc => ~Persisted.isGenerating

\* C1 (amended): once the handler of a request that created its pending
\* record has ended with a response, which it does exactly when the last
\* save it attempts succeeds, the persisted record has isGenerating = FALSE;
\* and it ends without a response only after a save of the outer catch threw.
C1_FinishedWhenAnswered ==
  /\ pc = "done" /\ Persisted # NullDoc => ~Persisted.isGenerating
  /\ pc = "rejected" => thumbnail # NullDoc /\ res = NoRes

\* a save threw, the outer catch saved the record as finished and answered 500
C1_Witness ==
  /\ pc = "done"
  /\ res.status = 500 /\ res.message = "error.message"
  /\ Persisted # NullDoc /\ ~Persisted.isGenerating

\* C2 (as stated): once a candidate's response was recorded as an error with
\* a status in [400,500) other than 429, no later candidate is invoked: the
\* model of the recorded error is the last one invoked.
C2_ClientErrorStopsLoop ==
  lastError # NullError /\ lastError.status \in 400..499 /\ lastError.status # 429
    => /\ pc # "loop"
       /\ invoked[Len(invoked)] = lastError.model

\* C3: the candidates are invoked in the order of the list, one per
\* iteration and each at most once; a response classified as image ends the
\* loop with its bytes as the accepted buffer, and no candidate is invoked
\* while a buffer is accepted.
C3_OrderedUntilFirstImage ==
  /\ Len(invoked) <= Len(modelsToTry)
  /\ invoked = SubSeq(modelsToTry, 1, Len(invoked))
  /\ pc = "loop" => /\ modelIdx = Len(invoked) + 1
                    /\ modelIdx <= Len(modelsToTry)
                    /\ finalBuffer.isNull
  /\ hfResp # NoResp /\ ~hfResp.threw
       /\ ~LoopBody(modelsToTry[Len(invoked)], hfResp).finalBuffer.isNull
       => /\ pc = "upload"
          /\ ~finalBuffer.isNull
          /\ finalBuffer.data = hfResp.data
  /\ ~finalBuffer.isNull => pc \notin {"loop", "noImage"}

\* the third candidate's image is accepted after an error of the second
C3_Witness ==
  /\ pc = "upload"
  /\ Len(invoked) = 3
  /\ lastError.model = modelsToTry[2] /\ lastError.status = 429
  /\ finalBuffer = [isNull |-> FALSE, data |-> <<"PNG", "pixels">>]
  /\ hfResp.data = <<"PNG", "pixels">>

\* the last response is an error the loop retries: a throw of the call, or a
\* response that was not accepted with status 429 or 5xx
LastRetryable ==
  /\ hfResp # NoResp
  /\ \/ hfResp.threw
     \/ finalBuffer.isNull /\ (hfResp.status = 429 \/ hfResp.status >= 500)

\* C4: a retryable error of a candidate (5xx, 429, a throw of the call)
\* neither ends the loop nor leaves it as an exception: while a candidate
\* remains it is the next one invoked, and the error is answered (502) only
\* when all candidates were invoked.
C4_RetryableContinues ==
  /\ LastRetryable /\ Len(invoked) < Len(modelsToTry)
       => pc = "loop" /\ modelIdx = Len(invoked) + 1
  /\ LastRetryable => pc \in {"loop", "noImage"}
  /\ res.status = 502
       /\ (res.lastError.kind = "error" \/ res.lastError.status = 429
           \/ res.lastError.status >= 500)
       => Len(invoked) = Len(modelsToTry)

\* the call of the first candidate threw and the second is about to be called
C4_Witness ==
  /\ pc = "loop" /\ modelIdx = 2
  /\ hfResp.threw
  /\ lastError = [model |-> modelsToTry[1], status |-> 0, kind |-> "error"]

\* C5 (as stated): a request for which no candidate produced an accepted
\* image ends with the persisted record finished, without image url, and
\* with the answer 502 (stated of the requests that were answered).
C5_NoImageEnds502 ==
  pc = "done" /\ thumbnail # NullDoc /\ finalBuffer.isNull
    => /\ res.status = 502
       /\ Persisted # NullDoc
            => ~Persisted.isGenerating /\ Persisted.image_url = ""

\* C5 (amended): for a request with no accepted image, when the save of the
\* finished record succeeds the persisted record is finished, without image
\* url, and the answer is 502 with the last error; when that save throws
\* nothing is stored or answered there and the outer catch takes over.
C5_NoImage502WhenSaved ==
  /\ [](res.status = 502
          => /\ finalBuffer.isNull
             /\ Len(invoked) >= 1
             /\ Persisted # NullDoc
                  => ~Persisted.isGenerating /\ Persisted.image_url = "")
  /\ [][pc = "noImage" /\ pc' # "noImage"
          => IF pc' = "done"
               THEN /\ CanSave(store, thumbnail)
                    /\ res'.status = 502
                    /\ res'.lastError = lastError
                    /\ store'[thumbnail.id] =
                         [thumbnail EXCEPT !.isGenerating = FALSE]
                    /\ store'[thumbnail.id].image_url = ""
               ELSE /\ pc' = "catch"
                    /\ store' = store
                    /\ res' = NoRes]_vars

\* all three candidates failed, the record is finished and the answer is 502
C5_Witness ==
  /\ pc = "done"
  /\ res.status = 502
  /\ Len(invoked) = 3
  /\ Persisted # NullDoc /\ ~Persisted.isGenerating /\ Persisted.image_url = ""

\* C6 (as stated): a request whose image was accepted and uploaded ends
\* with the persisted record finished, holding the url of the upload, and
\* with an answer 200 that carries that record (stated of the requests that
\* were answered).
C6_UploadedEnds200 ==
  pc = "done" /\ uploadResult # ""
    => /\ res.status = 200
       /\ res.thumbnail.image_url = uploadResult
       /\ Persisted # NullDoc
            => /\ Persisted = res.thumbnail
               /\ ~Persisted.isGenerating

\* C6 (amended): for a request whose image was accepted and uploaded, when
\* the save that follows the upload succeeds the persisted record is
\* finished, holds the url of the upload, and the answer is 200 with that
\* record; when that save throws the catch of the upload block takes over.
C6_Uploaded200WhenSaved ==
  /\ [](res.status = 200
          => /\ uploadResult # ""
             /\ res.thumbnail.image_url = uploadResult
             /\ ~res.thumbnail.isGenerating
             /\ Persisted # NullDoc => Persisted = res.thumbnail)
  /\ [][pc = "saveImage" /\ pc' # "saveImage"
          => IF pc' = "done"
               THEN /\ CanSave(store, thumbnail)
                    /\ res'.status = 200
                    /\ res'.thumbnail = store'[thumbnail.id]
                    /\ store'[thumbnail.id].image_url = uploadResult
                    /\ uploadResult # ""
                    /\ ~store'[thumbnail.id].isGenerating
               ELSE /\ pc' = "uploadCatch"
                    /\ store' = store
                    /\ res' = NoRes]_vars

\* the answer is 200 and carries the persisted record with the uploaded url
C6_Witness ==
  /\ pc = "done"
  /\ res.status = 200
  /\ Persisted # NullDoc /\ Persisted = res.thumbnail
  /\ Persisted.image_url = uploadResult /\ uploadResult \in Urls
  /\ ~Persisted.isGenerating

\* C7 (as stated): on a successful generation the record persisted at the
\* finalisation has the composed prompt as prompt_used.
C7_PromptUsedIsComposed ==
  pc = "done" /\ res.status = 200
    => /\ res.thumbnail.prompt_used = prompt
       /\ Persisted # NullDoc => Persisted.prompt_used = prompt

\* C8 (as stated): when the upload block failed after an image was accepted
\* and its catch has answered, the answer is 500 and the persisted record is
\* finished without image url; and the record of an ended request holds an
\* image url only if the request was answered with success.
C8_UploadFailureLeavesNoUrl ==
  /\ pc = "done" /\ res.message = "Image upload failed"
       => /\ res.status = 500
          /\ Persisted # NullDoc
               => ~Persisted.isGenerating /\ Persisted.image_url = ""
  /\ Ended /\ Persisted # NullDoc /\ Persisted.image_url # ""
       => res.status = 200

\* C9 (as stated): after a delete confirmed for a user who does not own the
\* record of that id, the record is still in the store.
C9_ForeignDeleteKeepsRecord ==
  del.status = 200 /\ del.found /\ ~del.own => store[del.id] # NullDoc

\* every argument deleteThumbnail can pass to the store
DeleteArgs == [_id : DOMAIN store, userId : Users]

\* C10: a delete of an id that matches no record leaves the store unchanged
\* and is confirmed like one that removed a record; deleting twice gives
\* the store and the answer of deleting once.
C10_DeleteIdempotent ==
  /\ [](\A arg \in DeleteArgs :
          LET once == findByIdAndDelete(store, arg)
          IN /\ findByIdAndDelete(once, arg) = once
             /\ store[arg._id] = NullDoc => once = store)
  /\ [](del.status = 200
          => /\ del.message = "Thumbnail Deleted Successfully"
             /\ store[del.id] = NullDoc)
  /\ [][del'.status = 200 /\ ~del'.found => store' = store]_vars
  /\ [][del.status = 200 /\ del'.status = 200 /\ del'.id = del.id
          => store' = store /\ del'.message = del.message]_vars

\* a delete of an id without record was confirmed and the other records stay
C10_Witness ==
  /\ del.status = 200 /\ ~del.found
  /\ \E i \in DOMAIN store : store[i] # NullDoc

\* C11 (as stated): every generation request gets exactly one response
\* whatever fails: a handler that has ended has sent one response, and none
\* sends two.
C11_ExactlyOneResponse ==
  /\ sent <= 1
  /\ Ended => sent = 1 /\ res # NoRes

\* C12: the pending record (isGenerating, no image url) is stored by the
\* step that precedes every call of the inference service and of the CDN;
\* a request whose create failed makes no call and no upload.
C12_PendingBeforeCalls ==
  /\ [](invoked # <<>> \/ uploadResult # "" \/ ~finalBuffer.isNull
          \/ pc \in {"loop", "noImage", "upload", "saveImage", "uploadCatch"}
          => thumbnail # NullDoc)
  /\ [][requests' = requests + 1
          => /\ invoked' = <<>> /\ uploadResult' = ""
             /\ IF thumbnail' # NullDoc
                  THEN /\ store'[thumbnail'.id] = thumbnail'
                       /\ thumbnail'.isGenerating
                       /\ thumbnail'.image_url = ""
                  ELSE /\ store' = store
                       /\ pc' = "catch"]_vars
  /\ [][invoked' # invoked /\ invoked' # <<>>
          => thumbnail # NullDoc /\ thumbnail' = thumbnail]_vars
  /\ [][pc = "upload" /\ pc' # "upload"
          => thumbnail # NullDoc /\ thumbnail' = thumbnail]_vars

\* the create failed: the request was answered 500 without any call
C12_Witness ==
  /\ pc = "done" /\ requests >= 1
  /\ thumbnail = NullDoc
  /\ invoked = <<>> /\ uploadResult = ""
  /\ res.status = 500

\* C13 (as stated): a request whose style is no key of the style table
\* fails at the composition of the prompt: no inference call is made with a
\* prompt composed from the missing description.
C13_UnknownStyleFails ==
  (\E i \in DOMAIN prompt : prompt[i] = Undefined) => invoked = <<>>

\* C14 (as stated): a response with status in [200,300) and an empty body
\* is not accepted as the image and is never uploaded: an upload that
\* returned had a buffer of at least one byte.
C14_EmptyBodyNotImage ==
  uploadResult # "" => ~finalBuffer.isNull /\ finalBuffer.data # <<>>

C16_LastErrorOfLastCandidate ==
  /\ [](pc = "noImage"
          => /\ lastError # NullError
             /\ lastError.model = invoked[Len(invoked)]
             /\ IF hfResp.threw
                  THEN lastError.kind = "error"
                  ELSE /\ lastError.kind \in {"body", "headers"}
                       /\ lastError.status = hfResp.status)
  /\ [](res.status = 502
          => /\ res.lastError # NullError
             /\ Len(invoked) >= 1
             /\ res.lastError.model = invoked[Len(invoked)])
  /\ [][pc = "noImage" /\ pc' = "done"
          => res'.status = 502 /\ res'.lastError = lastError]_vars

\* the 502 after three candidates carries the opaque error of the third
C16_Witness ==
  /\ res.status = 502
  /\ Len(invoked) = 3
  /\ res.lastError.model = modelsToTry[3]
  /\ res.lastError.kind = "headers"

\* the document as Thumbnail.create stored it: pending, without image url
StillPending(doc) == doc.isGenerating /\ doc.image_url = ""

\* C17 (as stated): from its creation to the end of its request the record
\* is updated exactly once, by the update that finishes it.
C17_UpdatedExactlyOnce ==
  /\ updates <= 1
  /\ Ended /\ thumbnail # NullDoc => updates = 1

\* C17 (amended): from its creation to the end of its request the record
\* is updated at most once, by a save that sets isGenerating = FALSE (and
\* the image url when the upload returned one); exactly once when the
\* request is answered, and not at all when every save of the handler
\* throws, which ends the handler without a response.
C17_UpdatedOnceWhenAnswered ==
  /\ [](updates <= 1)
  /\ [](pc = "done" /\ thumbnail # NullDoc => updates = 1)
  /\ [](pc = "rejected" => updates = 0)
  /\ [](thumbnail # NullDoc /\ Persisted # NullDoc
          => IF updates = 0
               THEN StillPending(Persisted)
               ELSE /\ ~Persisted.isGenerating
                    /\ Persisted.image_url \in {"", uploadResult}
                    /\ res.status = 200 => Persisted.image_url = uploadResult)
  /\ [][thumbnail # NullDoc /\ thumbnail'.id = thumbnail.id
          /\ store'[thumbnail.id] # store[thumbnail.id]
          /\ store'[thumbnail.id] # NullDoc
          => updates' = updates + 1 /\ pc' = "done"]_vars

\* a first save threw and the save of the catch was the one update
C17_Witness ==
  /\ pc = "done"
  /\ res.status = 500 /\ res.message = "Image upload failed"
  /\ updates = 1
  /\ Persisted # NullDoc /\ ~Persisted.isGenerating

\* C18: in the single-model variant, when the inference call, the upload or
\* the final save fails after the pending record was created, the stored
\* record is finished (isGenerating = FALSE) when the error is answered.
C18_SingleFailureFinalizes ==
  pc = "done" /\ res.status = 500 /\ invoked # <<>> /\ Persisted # NullDoc
    => ~Persisted.isGenerating

\* C19: once deleteThumbnail has removed the record of a generation that is
\* still in flight, no step of the generation makes the record present
\* again, and the generation does not end without a response.
C19_DeletedInFlightStillAnswered ==
  [][thumbnail # NullDoc /\ store[thumbnail.id] = NullDoc /\ ~Ended
       /\ requests' = requests
       => /\ store'[thumbnail.id] = NullDoc
          /\ pc' # "rejected"]_vars

====
